---- MODULE Spec2Model ----
\* Model of the BSS requirements comparison program:
\*   comparison_engine.py  ComparisonEngine (embeddings, similarity, greedy matching)
\*   comparator.py         FeatureComparator.compare_documents
\*   models.py             ComparisonResult.calculate_statistics
\* Python lists are sequences indexed from 1; the code's "no index" value -1 is kept.
\* Python floats are IEEE-754 doubles: the statistics are computed on 53-bit
\* significands with round-half-to-even, as CPython computes them.
EXTENDS Integers, Sequences, FiniteSets, TLC

\* ---------------------------------------------------------------------------
\* Bounds of the model
\* ---------------------------------------------------------------------------
MaxNew == 2
MaxExisting == 2
MaxCount == 3
MaxLines == 3
MaxSources == 3
MaxClock == 2

\* ---------------------------------------------------------------------------
\* IEEE-754 double arithmetic (non-negative values only)
\* A double is [sig |-> 53 bits, most significant first and leading bit 1,
\*              exp |-> the power of two of the last bit]; zero has sig = <<>>.
\* Exact intermediate values are bit strings; carries run over 20-bit limbs.
\* ---------------------------------------------------------------------------
Precision == 53
LimbBits == 20
LimbBase == 2 ^ LimbBits

FZero == [sig |-> <<>>, exp |-> 0]

Zeros(n) == [k \in 1..n |-> 0]

\* the w low bits of n, most significant first
NatToBitsW(n, w) == [k \in 1..w |-> (n \div (2 ^ (w - k))) % 2]

RECURSIVE BitsToNat(_)
BitsToNat(bits) ==
    IF Len(bits) = 0 THEN 0
    ELSE IF Len(bits) = 1 THEN bits[1]
    ELSE LET h == Len(bits) \div 2
         IN  (BitsToNat(SubSeq(bits, 1, h)) * (2 ^ (Len(bits) - h)))
             + BitsToNat(SubSeq(bits, h + 1, Len(bits)))

StripLeadingZeros(bits) ==
    IF \A k \in 1..Len(bits) : bits[k] = 0 THEN <<>>
    ELSE LET f == CHOOSE k \in 1..Len(bits) :
                      bits[k] = 1 /\ \A j \in 1..(k - 1) : bits[j] = 0
         IN  SubSeq(bits, f, Len(bits))

\* a bit string as limbs of LimbBits bits, most significant first
BitsToLimbs(bits) ==
    LET n == ((Len(bits) + LimbBits) - 1) \div LimbBits
        p == Zeros(n * LimbBits - Len(bits)) \o bits
    IN  [k \in 1..n |-> BitsToNat(SubSeq(p, ((k - 1) * LimbBits) + 1, k * LimbBits))]

LimbsToBits(limbs) ==
    StripLeadingZeros(
        [k \in 1..(Len(limbs) * LimbBits) |->
            NatToBitsW(limbs[((k - 1) \div LimbBits) + 1], LimbBits)[((k - 1) % LimbBits) + 1]])

\* limbs * c + carry for a small natural c
RECURSIVE LimbsMulSmall(_, _, _)
LimbsMulSmall(limbs, c, carry) ==
    IF limbs = <<>> THEN (IF carry = 0 THEN <<>> ELSE <<carry>>)
    ELSE LET t == limbs[Len(limbs)] * c + carry
         IN  Append(LimbsMulSmall(SubSeq(limbs, 1, Len(limbs) - 1), c, t \div LimbBase),
                    t % LimbBase)

\* a + b + carry for two limb strings of the same length
RECURSIVE LimbsAdd(_, _, _)
LimbsAdd(a, b, carry) ==
    IF a = <<>> THEN (IF carry = 0 THEN <<>> ELSE <<carry>>)
    ELSE LET t == a[Len(a)] + b[Len(b)] + carry
         IN  Append(LimbsAdd(SubSeq(a, 1, Len(a) - 1), SubSeq(b, 1, Len(b) - 1),
                             t \div LimbBase),
                    t % LimbBase)

BitsMulSmall(bits, c) == LimbsToBits(LimbsMulSmall(BitsToLimbs(bits), c, 0))

BitsAdd(a, b) ==
    LET w == IF Len(a) > Len(b) THEN Len(a) ELSE Len(b)
    IN  LimbsToBits(LimbsAdd(BitsToLimbs(Zeros(w - Len(a)) \o a),
                             BitsToLimbs(Zeros(w - Len(b)) \o b), 0))

\* bits + 1; an all-ones input gives a result one bit longer
BitsInc(bits) ==
    IF \A k \in 1..Len(bits) : bits[k] = 1 THEN <<1>> \o Zeros(Len(bits))
    ELSE LET z == CHOOSE k \in 1..Len(bits) :
                      bits[k] = 0 /\ \A j \in (k + 1)..Len(bits) : bits[j] = 1
         IN  [k \in 1..Len(bits) |-> IF k < z THEN bits[k] ELSE IF k = z THEN 1 ELSE 0]

\* The double nearest to the exact value bits * 2^lsb (+ something below the last
\* bit when sticky), ties to even. bits has a leading 1.
RoundToDouble(bits, lsb, sticky) ==
    IF bits = <<>> THEN FZero
    ELSE IF Len(bits) <= Precision
    THEN [sig |-> bits \o Zeros(Precision - Len(bits)),
          exp |-> lsb - (Precision - Len(bits))]
    ELSE LET keep == SubSeq(bits, 1, Precision)
             tail == SubSeq(bits, Precision + 1, Len(bits))
             rest == sticky \/ (\E k \in 2..Len(tail) : tail[k] = 1)
             up   == tail[1] = 1 /\ (rest \/ keep[Precision] = 1)
             e    == lsb + Len(tail)
             inc  == BitsInc(keep)
         IN  IF ~up THEN [sig |-> keep, exp |-> e]
             ELSE IF Len(inc) = Precision THEN [sig |-> inc, exp |-> e]
             ELSE [sig |-> SubSeq(inc, 1, Precision), exp |-> e + 1]

\* long division: the next limbs of r/n, most significant first
RECURSIVE DivLimbs(_, _, _)
DivLimbs(r, n, count) ==
    IF count = 0 THEN [limbs |-> <<>>, rem |-> r]
    ELSE LET t == r * LimbBase
             d == DivLimbs(t % n, n, count - 1)
         IN  [limbs |-> <<t \div n>> \o d.limbs, rem |-> d.rem]

\* Python int / int (true division, correctly rounded), for 0 <= k and
\* 0 < n with k / n in {0} \cup [2^-20, 2^20): four limbs below the binary
\* point then hold more than Precision + 2 significant bits
FloatDiv(k, n) ==
    LET d == DivLimbs(k % n, n, 4)
    IN  RoundToDouble(LimbsToBits(<<k \div n>> \o d.limbs), -(4 * LimbBits), d.rem # 0)

\* Python float * int for a small natural c
FloatMul(x, c) ==
    IF x.sig = <<>> \/ c = 0 THEN FZero
    ELSE RoundToDouble(BitsMulSmall(x.sig, c), x.exp, FALSE)

\* Python float + float
FloatAdd(x, y) ==
    IF x.sig = <<>> THEN y
    ELSE IF y.sig = <<>> THEN x
    ELSE LET lsb == IF x.exp < y.exp THEN x.exp ELSE y.exp
         IN  RoundToDouble(BitsAdd(x.sig \o Zeros(x.exp - lsb),
                                   y.sig \o Zeros(y.exp - lsb)), lsb, FALSE)

\* Python float < float, for doubles that are not negative
FloatLess(x, y) ==
    IF x.sig = <<>> THEN y.sig # <<>>
    ELSE IF y.sig = <<>> THEN FALSE
    ELSE IF x.exp # y.exp THEN x.exp < y.exp
    ELSE \E k \in 1..Precision :
            /\ x.sig[k] < y.sig[k]
            /\ \A m \in 1..(k - 1) : x.sig[m] = y.sig[m]

\* floor(x * 2^frac) of a double x, for checking a value against exact arithmetic
FloatToFixed(x, frac) ==
    IF x.sig = <<>> THEN 0
    ELSE LET n == Precision + x.exp + frac
         IN  IF n <= 0 THEN 0
             ELSE IF n <= Precision THEN BitsToNat(SubSeq(x.sig, 1, n))
             ELSE BitsToNat(x.sig \o Zeros(n - Precision))

\* ---------------------------------------------------------------------------
\* Embedding provider and similarity (comparison_engine.py)
\* A feature is the text it carries; its identity is its position in its list.
\* Similarities and thresholds are held in hundredths (0..100 for 0.0..1.0); the
\* provider's vectors are chosen so that every norm is a whole number and every
\* rescaled cosine a whole number of hundredths.
\* ---------------------------------------------------------------------------
Texts == {"a", "b", "c"}

\* self.embeddings.embed_documents: the vector the provider returns for a text
Embed(t) ==
    CASE t = "a" -> <<1, 0>>
      [] t = "b" -> <<4, 3>>
      [] t = "c" -> <<-1, 0>>

\* np.zeros(1536), in the model's dimension
ZeroVector == <<0, 0>>

\* the similar/exact thresholds a configuration can carry, in hundredths
Thresholds == {0, 90, 100}

FeatureLists(max) == UNION {[1..n -> Texts] : n \in 0..max}

create_embeddings(features, provider_ok) ==
    IF provider_ok
    THEN [k \in 1..Len(features) |-> Embed(features[k])]
    ELSE [k \in 1..Len(features) |-> ZeroVector]

Dot(u, v) == (u[1] * v[1]) + (u[2] * v[2])

\* np.linalg.norm on the provider's vectors
Norm(v) == CHOOSE r \in 0..(Dot(v, v)) : r * r = Dot(v, v)

\* calculate_similarity without the test of the norms: a zero norm is taken as
\* cosine 0, which rescales to one half
calculate_similarity_NoZeroGuard(emb1, emb2) ==
    LET dot == Dot(emb1, emb2)
        norm1 == Norm(emb1)
        norm2 == Norm(emb2)
    IN  IF norm1 = 0 \/ norm2 = 0 THEN 50
        ELSE (((dot * 100) \div (norm1 * norm2)) + 100) \div 2

\* calculate_similarity dividing by the square of the first norm
calculate_similarity_FirstNormOnly(emb1, emb2) ==
    LET dot_product == Dot(emb1, emb2)
        norm1 == Norm(emb1)
        norm2 == Norm(emb2)
    IN  IF norm1 = 0 \/ norm2 = 0 THEN 0
        ELSE (((dot_product * 100) \div (norm1 * norm1)) + 100) \div 2

calculate_similarity(emb1, emb2) ==
    LET dot_product == Dot(emb1, emb2)
        norm1 == Norm(emb1)
        norm2 == Norm(emb2)
    IN  IF norm1 = 0 \/ norm2 = 0 THEN 0
        ELSE (((dot_product * 100) \div (norm1 * norm2)) + 100) \div 2

Fallback == "Unable to perform detailed gap analysis. Manual review recommended."

\* _analyze_gap: building the prompt dereferences existing_feature, so a missing
\* one (index -1) raises inside the try block before the model is invoked
analyze_gap(existing_index, llm_ok) ==
    IF existing_index = -1 THEN Fallback
    ELSE IF llm_ok THEN "analysis"
    ELSE Fallback

\* ScanExisting without the test that skips the claimed items
RECURSIVE ScanExistingNoSkip(_, _, _, _, _)
ScanExistingNoSkip(new_emb, existing_embs, matched, j, best) ==
    IF j > Len(existing_embs) THEN best
    ELSE LET similarity == calculate_similarity(new_emb, existing_embs[j])
         IN  IF similarity > best.best_score
             THEN ScanExistingNoSkip(new_emb, existing_embs, matched, j + 1,
                                     [best_score |-> similarity, best_index |-> j])
             ELSE ScanExistingNoSkip(new_emb, existing_embs, matched, j + 1, best)

\* ScanExisting with >= for >: the last item of maximum similarity wins
RECURSIVE ScanExistingLastWins(_, _, _, _, _)
ScanExistingLastWins(new_emb, existing_embs, matched, j, best) ==
    IF j > Len(existing_embs) THEN best
    ELSE IF j \in matched
    THEN ScanExistingLastWins(new_emb, existing_embs, matched, j + 1, best)
    ELSE LET similarity == calculate_similarity(new_emb, existing_embs[j])
         IN  IF similarity >= best.best_score
             THEN ScanExistingLastWins(new_emb, existing_embs, matched, j + 1,
                                       [best_score |-> similarity, best_index |-> j])
             ELSE ScanExistingLastWins(new_emb, existing_embs, matched, j + 1, best)

\* the inner loop of compare_features: existing items j.. scanned in order
RECURSIVE ScanExisting(_, _, _, _, _)
ScanExisting(new_emb, existing_embs, matched, j, best) ==
    IF j > Len(existing_embs) THEN best
    ELSE IF j \in matched
    THEN ScanExisting(new_emb, existing_embs, matched, j + 1, best)
    ELSE LET similarity == calculate_similarity(new_emb, existing_embs[j])
         IN  IF similarity > best.best_score
             THEN ScanExisting(new_emb, existing_embs, matched, j + 1,
                               [best_score |-> similarity, best_index |-> j])
             ELSE ScanExisting(new_emb, existing_embs, matched, j + 1, best)

NoBest == [best_score |-> 0, best_index |-> -1]

\* the branch compare_features takes on a best score
Categorize(best_score, exact_threshold, similar_threshold) ==
    IF best_score >= exact_threshold THEN "exact"
    ELSE IF best_score >= similar_threshold THEN "similar"
    ELSE "delta"

\* MatchPair that drops the gap analysis it is given
MatchPairWithoutGap(new_feature, existing_feature, similarity_score, match_type, gap_analysis) ==
    [new_feature |-> new_feature, existing_feature |-> existing_feature,
     similarity_score |-> similarity_score, match_type |-> match_type,
     gap_analysis |-> "None"]

MatchPair(new_feature, existing_feature, similarity_score, match_type, gap_analysis) ==
    [new_feature |-> new_feature, existing_feature |-> existing_feature,
     similarity_score |-> similarity_score, match_type |-> match_type,
     gap_analysis |-> gap_analysis]

\* ---------------------------------------------------------------------------
\* ComparisonResult and its statistics (models.py)
\* ---------------------------------------------------------------------------
EmptyDict == <<>>
NoResult == <<>>

ComparisonResult(existing_document, new_count, existing_count, exact, similar, delta) ==
    [existing_document |-> existing_document,
     new_features_count |-> new_count, existing_features_count |-> existing_count,
     exact_matches |-> exact, similar_features |-> similar, delta_features |-> delta,
     statistics |-> EmptyDict]

\* count / total_new * 100 for every pair of counts the model reaches, computed once
PercentageTable ==
    [count \in 0..((2 * MaxCount) + MaxNew), total_new \in 1..(MaxCount + MaxNew) |->
        FloatMul(FloatDiv(count, total_new), 100)]

\* Percentage without the multiplication by 100
PercentageAsFraction(count, total_new) ==
    IF total_new > 0 THEN FloatDiv(count, total_new) ELSE FZero

\* (count / total_new * 100) if total_new > 0 else 0
Percentage(count, total_new) ==
    IF total_new > 0 THEN PercentageTable[count, total_new] ELSE FZero

\* the dictionary calculate_statistics builds
Statistics(self) ==
    LET total_new == self.new_features_count
        matched_count == Len(self.exact_matches) + Len(self.similar_features)
    IN  [total_new_features |-> total_new,
         total_existing_features |-> self.existing_features_count,
         exact_matches_count |-> Len(self.exact_matches),
         similar_matches_count |-> Len(self.similar_features),
         delta_count |-> Len(self.delta_features),
         exact_match_percentage |-> Percentage(Len(self.exact_matches), total_new),
         similar_match_percentage |-> Percentage(Len(self.similar_features), total_new),
         delta_percentage |-> Percentage(Len(self.delta_features), total_new),
         reusability_score |-> Percentage(matched_count, total_new)]

\* calculate_statistics that also resets new_features_count to the number of
\* classified items
calculate_statistics_Recounting(self) ==
    [self EXCEPT !.statistics = Statistics(self),
                 !.new_features_count = Len(self.exact_matches) + Len(self.similar_features)
                                            + Len(self.delta_features)]

\* the object after self.calculate_statistics()
calculate_statistics(self) == [self EXCEPT !.statistics = Statistics(self)]

\* ---------------------------------------------------------------------------
\* Text (utils.py, parser.py): a string is a sequence of one-character strings
\* ---------------------------------------------------------------------------
Whitespace == {" ", "\t"}
Digits == {"0", "1", "2", "3", "4", "5", "6", "7", "8", "9"}
DigitChars == <<"0", "1", "2", "3", "4", "5", "6", "7", "8", "9">>

\* str(n) for n >= 0
RECURSIVE Str(_)
Str(n) == IF n < 10 THEN <<DigitChars[n + 1]>>
          ELSE Str(n \div 10) \o <<DigitChars[(n % 10) + 1]>>

\* text.strip()
strip(text) ==
    LET kept == {k \in 1..Len(text) : text[k] \notin Whitespace}
    IN  IF kept = {} THEN <<>>
        ELSE SubSeq(text, CHOOSE k \in kept : \A m \in kept : k <= m,
                          CHOOSE k \in kept : \A m \in kept : k >= m)

\* text.split(): the maximal runs of characters that are not whitespace
RECURSIVE SplitFrom(_, _, _, _)
SplitFrom(text, k, word, words) ==
    LET closed == IF word = <<>> THEN words ELSE Append(words, word)
    IN  IF k > Len(text) THEN closed
        ELSE IF text[k] \in Whitespace THEN SplitFrom(text, k + 1, <<>>, closed)
        ELSE SplitFrom(text, k + 1, Append(word, text[k]), words)

split(text) == SplitFrom(text, 1, <<>>, <<>>)

\* " ".join(words)
RECURSIVE join(_)
join(words) ==
    IF words = <<>> THEN <<>>
    ELSE IF Len(words) = 1 THEN words[1]
    ELSE words[1] \o <<" ">> \o join(Tail(words))

clean_text(text) == IF text = <<>> THEN <<>> ELSE strip(join(split(text)))

\* the number of characters of the set `chars` that text has in a row from position k
RunLength(text, k, chars) ==
    LET stops == {m \in k..Len(text) : text[m] \notin chars}
    IN  IF stops = {} THEN (Len(text) - k) + 1
        ELSE (CHOOSE m \in stops : \A n \in stops : m <= n) - k

NoMatch == <<>>

\* what  \s+(.+)$  captures after the first `consumed` characters of the line, or
\* NoMatch: \s+ takes the whole run of whitespace, and gives its last character
\* back to (.+) when nothing follows the run
MatchRest(line, consumed) ==
    LET run == RunLength(line, consumed + 1, Whitespace)
        rest == SubSeq(line, consumed + run + 1, Len(line))
    IN  IF run >= 1 /\ rest # <<>> THEN rest
        ELSE IF run >= 2 THEN <<line[Len(line)]>>
        ELSE NoMatch

\* re.match(r'^(\d+)\.\s+(.+)$', line): groups 1 and 2, or NoMatch
MatchNumbered(line) ==
    LET d == RunLength(line, 1, Digits)
    IN  IF d >= 1 /\ Len(line) > d /\ line[d + 1] = "."
           /\ MatchRest(line, d + 1) # NoMatch
        THEN [number |-> SubSeq(line, 1, d), title |-> MatchRest(line, d + 1)]
        ELSE NoMatch

\* MatchHeader accepting any number of '#' characters
MatchHeaderAnyLevel(line) ==
    LET h == RunLength(line, 1, {"#"})
    IN  IF h >= 1 THEN MatchRest(line, h) ELSE NoMatch

\* re.match(r'^(#{2,3})\s+(.+)$', line): group 2, or NoMatch
MatchHeader(line) ==
    LET h == RunLength(line, 1, {"#"})
    IN  IF h \in {2, 3} THEN MatchRest(line, h) ELSE NoMatch

\* re.match(r'^[-*]\s+(.+)$', line): group 1, or NoMatch
MatchBullet(line) ==
    IF line # <<>> /\ line[1] \in {"-", "*"} THEN MatchRest(line, 1) ELSE NoMatch

startswith(line, char) == line # <<>> /\ line[1] = char

\* ---------------------------------------------------------------------------
\* RequirementParser (parser.py)
\* ---------------------------------------------------------------------------
Customer == "cust"

\* f"{customer}_{number}"
FeatureId(number) == <<Customer, "_">> \o number

NoFeature == <<>>

Feature(id, title, description, raw_text) ==
    [id |-> id, title |-> title, description |-> description, customer |-> Customer,
     raw_text |-> raw_text]

\* the continuation branch of the two accumulating strategies
AddLine(current_feature, line) ==
    [current_feature EXCEPT !.description = @ \o <<" ">> \o line,
                            !.raw_text = @ \o <<" ">> \o line]

\* CleanUp without the fall back of an empty description on the title
CleanUpNoFallback(feats) ==
    [k \in 1..Len(feats) |->
        [feats[k] EXCEPT !.description = clean_text(feats[k].description),
                         !.raw_text = clean_text(feats[k].raw_text)]]

\* the loop that cleans the accumulated descriptions up
CleanUp(feats) ==
    [k \in 1..Len(feats) |->
        LET description == clean_text(feats[k].description)
        IN  [feats[k] EXCEPT !.description = IF description = <<>> THEN feats[k].title
                                             ELSE description,
                             !.raw_text = clean_text(feats[k].raw_text)]]

Saved(feats, current_feature) ==
    IF current_feature # NoFeature THEN Append(feats, current_feature) ELSE feats

\* NumberedLoop that also appends the lines starting with '#'
RECURSIVE NumberedLoopWithHeadings(_, _, _, _)
NumberedLoopWithHeadings(lines, k, feats, current_feature) ==
    IF k > Len(lines) THEN Saved(feats, current_feature)
    ELSE LET line == strip(lines[k])
             match == MatchNumbered(line)
         IN  IF match # NoMatch
             THEN NumberedLoopWithHeadings(lines, k + 1, Saved(feats, current_feature),
                                           Feature(FeatureId(match.number),
                                                   clean_text(match.title),
                                                   <<>>, match.title))
             ELSE IF current_feature # NoFeature /\ line # <<>>
             THEN NumberedLoopWithHeadings(lines, k + 1, feats,
                                           AddLine(current_feature, line))
             ELSE NumberedLoopWithHeadings(lines, k + 1, feats, current_feature)

\* the loop of _extract_numbered_features from line k on
RECURSIVE NumberedLoop(_, _, _, _)
NumberedLoop(lines, k, feats, current_feature) ==
    IF k > Len(lines) THEN Saved(feats, current_feature)
    ELSE LET line == strip(lines[k])
             match == MatchNumbered(line)
         IN  IF match # NoMatch
             THEN NumberedLoop(lines, k + 1, Saved(feats, current_feature),
                               Feature(FeatureId(match.number), clean_text(match.title),
                                       <<>>, match.title))
             ELSE IF current_feature # NoFeature /\ line # <<>> /\ ~startswith(line, "#")
             THEN NumberedLoop(lines, k + 1, feats, AddLine(current_feature, line))
             ELSE NumberedLoop(lines, k + 1, feats, current_feature)

extract_numbered_features(lines) == CleanUp(NumberedLoop(lines, 1, <<>>, NoFeature))

\* the loop of _extract_header_features from line k on
RECURSIVE HeaderLoop(_, _, _, _, _)
HeaderLoop(lines, k, feats, current_feature, feature_counter) ==
    IF k > Len(lines) THEN Saved(feats, current_feature)
    ELSE LET line_stripped == strip(lines[k])
             title == MatchHeader(line_stripped)
         IN  IF title # NoMatch
             THEN HeaderLoop(lines, k + 1, Saved(feats, current_feature),
                             Feature(FeatureId(Str(feature_counter + 1)), clean_text(title),
                                     <<>>, title),
                             feature_counter + 1)
             ELSE IF current_feature # NoFeature /\ line_stripped # <<>>
                     /\ ~startswith(line_stripped, "#")
             THEN HeaderLoop(lines, k + 1, feats, AddLine(current_feature, line_stripped),
                             feature_counter)
             ELSE HeaderLoop(lines, k + 1, feats, current_feature, feature_counter)

extract_header_features(lines) == CleanUp(HeaderLoop(lines, 1, <<>>, NoFeature, 0))

\* the loop of _extract_bullet_features from line k on
RECURSIVE BulletLoop(_, _, _, _)
BulletLoop(lines, k, feats, feature_counter) ==
    IF k > Len(lines) THEN feats
    ELSE LET content_text == MatchBullet(strip(lines[k]))
         IN  IF content_text # NoMatch
             THEN BulletLoop(lines, k + 1,
                             Append(feats, Feature(FeatureId(Str(feature_counter + 1)),
                                                   clean_text(content_text),
                                                   clean_text(content_text), content_text)),
                             feature_counter + 1)
             ELSE BulletLoop(lines, k + 1, feats, feature_counter)

extract_bullet_features(lines) == BulletLoop(lines, 1, <<>>, 0)

\* ---------------------------------------------------------------------------
\* State
\* ---------------------------------------------------------------------------
VARIABLES
    pc,                       \* position in the call being modelled
    entry,                    \* the method called: compare_documents, compare_features, calculate_statistics
    exact_threshold,          \* self.exact_threshold
    similar_threshold,        \* self.similar_threshold
    new_features,             \* what the new document parses to
    existing_features,        \* what the existing document parses to
    new_embeddings,
    existing_embeddings,
    embed_failed,             \* the sides whose embed_documents call raised
    i,                        \* position of the new feature the outer loop is at
    best,                     \* best_score and best_index of the last inner scan
    matched_existing_indices,
    exact_matches,
    similar_matches,
    delta_features,
    llm_failures,             \* new features whose self.llm.invoke call raised
    gap_calls,                \* new features _analyze_gap was called for, one entry per call
    raised,                   \* the exception that left the call, or "none"
    result,                   \* the ComparisonResult, or NoResult
    existing_doc_path,        \* the existing document compared: 0 the one given, k the k-th of the directory
    args,                     \* main: the parsed command line
    config_file,              \* main: what load_config reads from args.config
    config,                   \* main: its config dictionary
    sources,                  \* compare_multiple: what the documents of the directory parse to, in glob order
    results,                  \* compare_multiple: the list it builds
    error_log,                \* compare_multiple: the documents it logged an error for
    best_result,              \* main: position in results of what get_best_match returned
    reports,                  \* main: the existing documents a report was written for
    exit_code,                \* main: the status it exited with, in a tuple, empty while it runs
    content,                  \* extract_features: the lines of the text
    strategies_tried,         \* extract_features: the strategies invoked, in order
    features,                 \* extract_features: the features extracted
    output_format,            \* generate: 'markdown', 'html' or 'both'
    output_path,              \* generate: the path given, empty for None
    output_dir,               \* ReportGenerator.output_dir
    clock,                    \* the second datetime.now() falls in
    files,                    \* the files written: path and kind of content
    generated_files           \* generate: the dictionary it returns

vars == <<pc, entry, exact_threshold, similar_threshold, new_features, existing_features,
          new_embeddings, existing_embeddings, embed_failed, i, best,
          matched_existing_indices, exact_matches, similar_matches, delta_features,
          llm_failures, gap_calls, raised, result, existing_doc_path, args, config_file, config,
          sources, results, error_log, best_result, reports, exit_code,
          content, strategies_tried, features,
          output_format, output_path, output_dir, clock, files, generated_files>>

driver == <<existing_doc_path, args, config_file, config, sources, results, error_log,
            best_result, reports, exit_code>>

parsing == <<content, strategies_tried, features>>

reporting == <<output_format, output_path, output_dir, clock, files, generated_files>>

inputs == <<entry, exact_threshold, similar_threshold, new_features, existing_features>>

engine == <<new_embeddings, existing_embeddings, embed_failed, i, best,
            matched_existing_indices, exact_matches, similar_matches, delta_features,
            llm_failures, gap_calls>>

EngineIdle ==
    /\ new_embeddings = <<>>
    /\ existing_embeddings = <<>>
    /\ embed_failed = {}
    /\ i = 1
    /\ best = NoBest
    /\ matched_existing_indices = {}
    /\ exact_matches = <<>>
    /\ similar_matches = <<>>
    /\ delta_features = <<>>
    /\ llm_failures = {}
    /\ gap_calls = <<>>

NoArgs == <<>>
NotExited == <<>>
NoConfig == <<>>

\* main is not running
DriverIdle ==
    /\ existing_doc_path = 0
    /\ args = NoArgs
    /\ config_file = NoConfig
    /\ config = NoConfig
    /\ sources = <<>>
    /\ results = <<>>
    /\ error_log = <<>>
    /\ best_result = 0
    /\ reports = <<>>
    /\ exit_code = NotExited

\* extract_features is not running
ParsingIdle ==
    /\ content = <<>>
    /\ strategies_tried = <<>>
    /\ features = <<>>

NoPath == <<>>

NoFiles == [markdown |-> NoPath, html |-> NoPath]

\* generate is not running
ReportingIdle ==
    /\ output_format = "both"
    /\ output_path = NoPath
    /\ output_dir = "outputs/comparison_reports"
    /\ clock = 0
    /\ files = {}
    /\ generated_files = NoFiles

\* A comparison is about to start: through compare_documents (which parses the two
\* documents first) or through compare_features on two given lists.
Init ==
    /\ entry \in {"compare_documents", "compare_features"}
    /\ pc = IF entry = "compare_documents" THEN "parse" ELSE "embed"
    /\ exact_threshold \in Thresholds
    /\ similar_threshold \in {t \in Thresholds : t <= exact_threshold}
    /\ new_features \in FeatureLists(MaxNew)
    /\ existing_features \in FeatureLists(MaxExisting)
    /\ EngineIdle
    /\ raised = "none"
    /\ result = NoResult
    /\ DriverIdle
    /\ ParsingIdle
    /\ ReportingIdle

\* ParseDocuments without the check of the existing side
ParseDocumentsUnchecked ==
    /\ pc = "parse"
    /\ \E new_readable \in BOOLEAN, existing_readable \in BOOLEAN :
        IF ~new_readable \/ ~existing_readable
        THEN pc' = "raised" /\ raised' = "OSError"
        ELSE IF new_features = <<>>
        THEN pc' = "raised" /\ raised' = "ValueError"
        ELSE pc' = "embed" /\ raised' = raised
    /\ UNCHANGED <<inputs, engine, result, driver, parsing, reporting>>

\* ParseDocuments without the check of the new side
ParseDocumentsNewUnchecked ==
    /\ pc = "parse"
    /\ \E new_readable \in BOOLEAN, existing_readable \in BOOLEAN :
        IF ~new_readable \/ ~existing_readable
        THEN pc' = "raised" /\ raised' = "OSError"
        ELSE IF existing_features = <<>>
        THEN pc' = "raised" /\ raised' = "ValueError"
        ELSE pc' = "embed" /\ raised' = raised
    /\ UNCHANGED <<inputs, engine, result, driver, parsing, reporting>>

\* compare_documents up to the call of compare_features: parse_markdown re-raises a
\* read error; an empty side is rejected with ValueError
ParseDocuments ==
    /\ pc = "parse"
    /\ \E new_readable \in BOOLEAN, existing_readable \in BOOLEAN :
        IF ~new_readable \/ ~existing_readable
        THEN pc' = "raised" /\ raised' = "OSError"
        ELSE IF new_features = <<>> \/ existing_features = <<>>
        THEN pc' = "raised" /\ raised' = "ValueError"
        ELSE pc' = "embed" /\ raised' = raised
    /\ UNCHANGED <<inputs, engine, result, driver, parsing, reporting>>

\* CreateEmbeddings starting from the existing items the previous comparison of
\* the batch claimed
CreateEmbeddingsClaimsCarriedOver ==
    /\ pc = "embed"
    /\ \E new_ok \in BOOLEAN, existing_ok \in BOOLEAN :
        /\ new_embeddings' = create_embeddings(new_features, new_ok)
        /\ existing_embeddings' = create_embeddings(existing_features, existing_ok)
        /\ embed_failed' = {side \in {"new", "existing"} :
                               \/ side = "new" /\ ~new_ok
                               \/ side = "existing" /\ ~existing_ok}
    /\ exact_matches' = <<>>
    /\ similar_matches' = <<>>
    /\ delta_features' = <<>>
    /\ matched_existing_indices' =
           IF results = <<>> THEN {}
           ELSE {p.existing_feature :
                    p \in {results[Len(results)].exact_matches[n] :
                               n \in 1..Len(results[Len(results)].exact_matches)}
                          \cup {results[Len(results)].similar_features[n] :
                                   n \in 1..Len(results[Len(results)].similar_features)}}
    /\ i' = 1
    /\ pc' = "loop"
    /\ gap_calls' = <<>>
    /\ UNCHANGED <<inputs, best, llm_failures, raised, result, driver, parsing, reporting>>

\* compare_features up to its outer loop
CreateEmbeddings ==
    /\ pc = "embed"
    /\ \E new_ok \in BOOLEAN, existing_ok \in BOOLEAN :
        /\ new_embeddings' = create_embeddings(new_features, new_ok)
        /\ existing_embeddings' = create_embeddings(existing_features, existing_ok)
        /\ embed_failed' = {side \in {"new", "existing"} :
                               \/ side = "new" /\ ~new_ok
                               \/ side = "existing" /\ ~existing_ok}
    /\ exact_matches' = <<>>
    /\ similar_matches' = <<>>
    /\ delta_features' = <<>>
    /\ matched_existing_indices' = {}
    /\ i' = 1
    /\ pc' = "loop"
    /\ gap_calls' = <<>>
    /\ UNCHANGED <<inputs, best, llm_failures, raised, result, driver, parsing, reporting>>

\* The logger.debug call that ends the exact and the similar branch evaluates
\* best_match.title: AttributeError when best_match is None (best_index -1)
AfterMatchLogged(best_index) ==
    IF best_index = -1
    THEN pc' = "raised" /\ raised' = "AttributeError" /\ i' = i
    ELSE pc' = "loop" /\ raised' = raised /\ i' = i + 1

\* CompareOne in which a delta item claims its best candidate
CompareOneClaimingDelta ==
    /\ pc = "loop"
    /\ i <= Len(new_features)
    /\ LET b == ScanExisting(new_embeddings[i], existing_embeddings,
                             matched_existing_indices, 1, NoBest)
           kind == Categorize(b.best_score, exact_threshold, similar_threshold)
       IN  /\ best' = b
           /\ \E llm_ok \in BOOLEAN :
               CASE kind = "exact" ->
                       /\ exact_matches' = Append(exact_matches,
                              MatchPair(i, b.best_index, b.best_score, "exact", "None"))
                       /\ matched_existing_indices' =
                              matched_existing_indices \cup {b.best_index}
                       /\ AfterMatchLogged(b.best_index)
                       /\ UNCHANGED <<similar_matches, delta_features, llm_failures,
                                      gap_calls>>
                 [] kind = "similar" ->
                       /\ llm_failures' = IF b.best_index # -1 /\ ~llm_ok
                                          THEN llm_failures \cup {i}
                                          ELSE llm_failures
                       /\ similar_matches' = Append(similar_matches,
                              MatchPair(i, b.best_index, b.best_score, "similar",
                                        analyze_gap(b.best_index, llm_ok)))
                       /\ matched_existing_indices' =
                              matched_existing_indices \cup {b.best_index}
                       /\ gap_calls' = Append(gap_calls, i)
                       /\ AfterMatchLogged(b.best_index)
                       /\ UNCHANGED <<exact_matches, delta_features>>
                 [] kind = "delta" ->
                       /\ delta_features' = Append(delta_features, i)
                       /\ matched_existing_indices' =
                              IF b.best_index # -1
                              THEN matched_existing_indices \cup {b.best_index}
                              ELSE matched_existing_indices
                       /\ pc' = "loop" /\ raised' = raised /\ i' = i + 1
                       /\ UNCHANGED <<exact_matches, similar_matches, llm_failures,
                                      gap_calls>>
    /\ UNCHANGED <<inputs, new_embeddings, existing_embeddings, embed_failed, result,
                   driver, parsing, reporting>>

\* CompareOne putting each item at the front of its list
CompareOnePrepending ==
    /\ pc = "loop"
    /\ i <= Len(new_features)
    /\ LET b == ScanExisting(new_embeddings[i], existing_embeddings,
                             matched_existing_indices, 1, NoBest)
           kind == Categorize(b.best_score, exact_threshold, similar_threshold)
       IN  /\ best' = b
           /\ \E llm_ok \in BOOLEAN :
               CASE kind = "exact" ->
                       /\ exact_matches' = <<MatchPair(i, b.best_index, b.best_score, "exact", "None")>> \o exact_matches
                       /\ matched_existing_indices' =
                              matched_existing_indices \cup {b.best_index}
                       /\ AfterMatchLogged(b.best_index)
                       /\ UNCHANGED <<similar_matches, delta_features, llm_failures,
                                      gap_calls>>
                 [] kind = "similar" ->
                       /\ llm_failures' = IF b.best_index # -1 /\ ~llm_ok
                                          THEN llm_failures \cup {i}
                                          ELSE llm_failures
                       /\ similar_matches' = <<MatchPair(i, b.best_index, b.best_score, "similar",
                                        analyze_gap(b.best_index, llm_ok))>> \o similar_matches
                       /\ matched_existing_indices' =
                              matched_existing_indices \cup {b.best_index}
                       /\ gap_calls' = Append(gap_calls, i)
                       /\ AfterMatchLogged(b.best_index)
                       /\ UNCHANGED <<exact_matches, delta_features>>
                 [] kind = "delta" ->
                       /\ delta_features' = <<i>> \o delta_features
                       /\ pc' = "loop" /\ raised' = raised /\ i' = i + 1
                       /\ UNCHANGED <<exact_matches, similar_matches,
                                      matched_existing_indices, llm_failures, gap_calls>>
    /\ UNCHANGED <<inputs, new_embeddings, existing_embeddings, embed_failed, result,
                   driver, parsing, reporting>>

\* one iteration of the outer loop of compare_features
CompareOne ==
    /\ pc = "loop"
    /\ i <= Len(new_features)
    /\ LET b == ScanExisting(new_embeddings[i], existing_embeddings,
                             matched_existing_indices, 1, NoBest)
           kind == Categorize(b.best_score, exact_threshold, similar_threshold)
       IN  /\ best' = b
           /\ \E llm_ok \in BOOLEAN :
               CASE kind = "exact" ->
                       /\ exact_matches' = Append(exact_matches,
                              MatchPair(i, b.best_index, b.best_score, "exact", "None"))
                       /\ matched_existing_indices' =
                              matched_existing_indices \cup {b.best_index}
                       /\ AfterMatchLogged(b.best_index)
                       /\ UNCHANGED <<similar_matches, delta_features, llm_failures,
                                      gap_calls>>
                 [] kind = "similar" ->
                       /\ llm_failures' = IF b.best_index # -1 /\ ~llm_ok
                                          THEN llm_failures \cup {i}
                                          ELSE llm_failures
                       /\ similar_matches' = Append(similar_matches,
                              MatchPair(i, b.best_index, b.best_score, "similar",
                                        analyze_gap(b.best_index, llm_ok)))
                       /\ matched_existing_indices' =
                              matched_existing_indices \cup {b.best_index}
                       /\ gap_calls' = Append(gap_calls, i)
                       /\ AfterMatchLogged(b.best_index)
                       /\ UNCHANGED <<exact_matches, delta_features>>
                 [] kind = "delta" ->
                       /\ delta_features' = Append(delta_features, i)
                       /\ pc' = "loop" /\ raised' = raised /\ i' = i + 1
                       /\ UNCHANGED <<exact_matches, similar_matches,
                                      matched_existing_indices, llm_failures, gap_calls>>
    /\ UNCHANGED <<inputs, new_embeddings, existing_embeddings, embed_failed, result,
                   driver, parsing, reporting>>

\* compare_features returns its three lists
ReturnMatches ==
    /\ pc = "loop"
    /\ i > Len(new_features)
    /\ pc' = "returned"
    /\ UNCHANGED <<inputs, engine, raised, result, driver, parsing, reporting>>

\* the result object is built from the three lists and its statistics computed
BuildResult ==
    /\ pc = "returned"
    /\ result' = calculate_statistics(
                     ComparisonResult(existing_doc_path, Len(new_features),
                                      Len(existing_features),
                                      exact_matches, similar_matches, delta_features))
    /\ pc' = "done"
    /\ UNCHANGED <<inputs, engine, raised, driver, parsing, reporting>>

Next ==
    \/ ParseDocuments
    \/ CreateEmbeddings
    \/ CompareOne
    \/ ReturnMatches
    \/ BuildResult

Spec == Init /\ [][Next]_vars

\* ---------------------------------------------------------------------------
\* calculate_statistics on its own: any ComparisonResult object (the counts and the
\* list lengths are independent fields), the method called twice in a row
\* ---------------------------------------------------------------------------
PairList(n, match_type) ==
    [k \in 1..n |-> MatchPair(k, k, 100, match_type,
                              IF match_type = "similar" THEN "analysis" ELSE "None")]

StatsInit ==
    /\ entry = "calculate_statistics"
    /\ pc = "stats"
    /\ exact_threshold = 100
    /\ similar_threshold = 90
    /\ new_features = <<>>
    /\ existing_features = <<>>
    /\ EngineIdle
    /\ raised = "none"
    /\ DriverIdle
    /\ ParsingIdle
    /\ ReportingIdle
    /\ \E new_count \in 0..MaxCount, existing_count \in 0..1,
          e \in 0..MaxCount, s \in 0..MaxCount, d \in 0..MaxCount :
        result = ComparisonResult(0, new_count, existing_count, PairList(e, "exact"),
                                  PairList(s, "similar"), [k \in 1..d |-> k])

CalculateStatistics ==
    /\ pc \in {"stats", "stats_once"}
    /\ result' = calculate_statistics(result)
    /\ pc' = IF pc = "stats" THEN "stats_once" ELSE "stats_twice"
    /\ UNCHANGED <<inputs, engine, raised, driver, parsing, reporting>>

StatsNext == CalculateStatistics

StatsSpec == StatsInit /\ [][StatsNext]_vars

\* ---------------------------------------------------------------------------
\* extract_features on its own: a text of up to MaxLines lines
\* ---------------------------------------------------------------------------
\* "1. x", "1. x  y", "2.<tab>y", "## x", "###  y x", "# x", "- x", "* x  y",
\* " y ", "", "1.", "#### x", "## 2. x"
Lines ==
    {<<"1", ".", " ", "x">>,
     <<"1", ".", " ", "x", " ", " ", "y">>,
     <<"2", ".", "\t", "y">>,
     <<"#", "#", " ", "x">>,
     <<"#", "#", "#", " ", " ", "y", " ", "x">>,
     <<"#", " ", "x">>,
     <<"-", " ", "x">>,
     <<"*", " ", "x", " ", " ", "y">>,
     <<" ", "y", " ">>,
     <<>>,
     <<"1", ".">>,
     <<"#", "#", "#", "#", " ", "x">>,
     <<"#", "#", " ", "2", ".", " ", "x">>}

Contents == UNION {[1..n -> Lines] : n \in 0..MaxLines}

ParserInit ==
    /\ entry = "extract_features"
    /\ pc = "numbered"
    /\ exact_threshold = 100
    /\ similar_threshold = 90
    /\ new_features = <<>>
    /\ existing_features = <<>>
    /\ EngineIdle
    /\ raised = "none"
    /\ result = NoResult
    /\ DriverIdle
    /\ content \in Contents
    /\ strategies_tried = <<>>
    /\ features = <<>>
    /\ ReportingIdle

\* features = self._extract_numbered_features(content, customer)
TryNumbered ==
    /\ pc = "numbered"
    /\ features' = extract_numbered_features(content)
    /\ strategies_tried' = Append(strategies_tried, "numbered")
    /\ pc' = "header"
    /\ UNCHANGED <<inputs, engine, raised, result, driver, reporting, content>>

\* TryHeader with the header strategy invoked whatever the numbered one yielded
TryHeaderAlways ==
    /\ pc = "header"
    /\ features' = IF extract_header_features(content) # <<>>
                   THEN extract_header_features(content) ELSE features
    /\ strategies_tried' = Append(strategies_tried, "header")
    /\ pc' = "bullet"
    /\ UNCHANGED <<inputs, engine, raised, result, driver, reporting, content>>

\* if not features: features = self._extract_header_features(content, customer)
TryHeader ==
    /\ pc = "header"
    /\ IF features = <<>>
       THEN /\ features' = extract_header_features(content)
            /\ strategies_tried' = Append(strategies_tried, "header")
       ELSE UNCHANGED <<features, strategies_tried>>
    /\ pc' = "bullet"
    /\ UNCHANGED <<inputs, engine, raised, result, driver, reporting, content>>

\* if not features: features = self._extract_bullet_features(content, customer)
TryBullet ==
    /\ pc = "bullet"
    /\ IF features = <<>>
       THEN /\ features' = extract_bullet_features(content)
            /\ strategies_tried' = Append(strategies_tried, "bullet")
       ELSE UNCHANGED <<features, strategies_tried>>
    /\ pc' = "extracted"
    /\ UNCHANGED <<inputs, engine, raised, result, driver, reporting, content>>

ParserNext ==
    \/ TryNumbered
    \/ TryHeader
    \/ TryBullet

ParserSpec == ParserInit /\ [][ParserNext]_vars

\* ---------------------------------------------------------------------------
\* main (compare_requirements.py) with compare_multiple and get_best_match
\* (comparator.py): a command line with or without --threshold, on one existing
\* document or on a directory of up to MaxSources documents
\* ---------------------------------------------------------------------------
NoThreshold == -1

\* get_default_config()["comparison"]
DefaultComparison == [exact_match_threshold |-> 95, similar_match_threshold |-> 70]

ConfigFiles ==
    {[found |-> FALSE, comparison |-> DefaultComparison],
     [found |-> TRUE, comparison |-> [exact_match_threshold |-> 90,
                                      similar_match_threshold |-> 0]]}

\* load_config(args.config)["comparison"]: read anew from the file at every call
load_config(file) == IF file.found THEN file.comparison ELSE DefaultComparison

NewDocuments == {<<"a", "b">>}
ExistingDocuments == {<<>>, <<"a">>, <<"b", "a">>}

\* r.statistics.get('reusability_score', 0)
ScoreKey(r) ==
    IF r.statistics = EmptyDict THEN FZero ELSE r.statistics.reusability_score

\* max(results, key=...) where a later result of equal key replaces the earlier
RECURSIVE MaxFromLastWins(_, _, _)
MaxFromLastWins(list, k, best_so_far) ==
    IF k > Len(list) THEN best_so_far
    ELSE IF ~FloatLess(ScoreKey(list[k]), ScoreKey(list[best_so_far]))
    THEN MaxFromLastWins(list, k + 1, k)
    ELSE MaxFromLastWins(list, k + 1, best_so_far)

\* max(results, key=...): the position of the first result of greatest key
RECURSIVE MaxFrom(_, _, _)
MaxFrom(list, k, best_so_far) ==
    IF k > Len(list) THEN best_so_far
    ELSE IF FloatLess(ScoreKey(list[best_so_far]), ScoreKey(list[k]))
    THEN MaxFrom(list, k + 1, k)
    ELSE MaxFrom(list, k + 1, best_so_far)

\* the position in the list of the result get_best_match returns, 0 for None
get_best_match(list) == IF list = <<>> THEN 0 ELSE MaxFrom(list, 2, 1)

MainInit ==
    /\ entry = "main"
    /\ pc = "main"
    /\ exact_threshold = 0
    /\ similar_threshold = 0
    /\ new_features \in NewDocuments
    /\ EngineIdle
    /\ raised = "none"
    /\ result = NoResult
    /\ existing_doc_path = 0
    /\ \E threshold \in {NoThreshold, 0, 50}, existing_dir \in BOOLEAN :
        /\ args = [threshold |-> threshold, existing_dir |-> existing_dir]
        /\ IF existing_dir
           THEN /\ existing_features = <<>>
                /\ sources \in UNION {[1..n -> ExistingDocuments] : n \in 0..MaxSources}
           ELSE /\ existing_features \in ExistingDocuments
                /\ sources = <<>>
    /\ config_file \in ConfigFiles
    /\ config = NoConfig
    /\ results = <<>>
    /\ error_log = <<>>
    /\ best_result = 0
    /\ reports = <<>>
    /\ exit_code = NotExited
    /\ ParsingIdle
    /\ ReportingIdle

\* main up to the comparison: the paths are validated, the configuration is
\* loaded and the override written into it, and FeatureComparator(args.config)
\* builds its engine from the configuration it loads itself
MainStart ==
    /\ pc = "main"
    /\ \E paths_exist \in BOOLEAN :
        IF ~paths_exist
        THEN /\ exit_code' = <<1>>
             /\ pc' = "exited"
             /\ UNCHANGED <<config, exact_threshold, similar_threshold>>
        ELSE /\ config' = IF args.threshold # NoThreshold /\ args.threshold # 0
                          THEN [load_config(config_file) EXCEPT
                                    !.similar_match_threshold = args.threshold]
                          ELSE load_config(config_file)
             /\ exact_threshold' = load_config(config_file).exact_match_threshold
             /\ similar_threshold' = load_config(config_file).similar_match_threshold
             /\ exit_code' = exit_code
             /\ pc' = IF args.existing_dir THEN "batch" ELSE "parse"
    /\ UNCHANGED <<entry, new_features, existing_features, engine, raised, result,
                   existing_doc_path, args, config_file, sources, results, error_log,
                   best_result, reports, parsing, reporting>>

\* compare_multiple: the loop takes the next document of the directory and calls
\* compare_documents on it, or the loop is over and the list is returned
BatchNext ==
    /\ entry = "main"
    /\ pc = "batch"
    /\ IF existing_doc_path < Len(sources)
       THEN /\ existing_doc_path' = existing_doc_path + 1
            /\ existing_features' = sources[existing_doc_path + 1]
            /\ pc' = "parse"
       ELSE /\ pc' = "batch_returned"
            /\ UNCHANGED <<existing_doc_path, existing_features>>
    /\ new_embeddings' = <<>>
    /\ existing_embeddings' = <<>>
    /\ embed_failed' = {}
    /\ i' = 1
    /\ best' = NoBest
    /\ matched_existing_indices' = {}
    /\ exact_matches' = <<>>
    /\ similar_matches' = <<>>
    /\ delta_features' = <<>>
    /\ llm_failures' = {}
    /\ gap_calls' = <<>>
    /\ raised' = "none"
    /\ result' = NoResult
    /\ UNCHANGED <<entry, exact_threshold, similar_threshold, new_features, args,
                   config_file, config, sources, results, error_log, best_result,
                   reports, exit_code, parsing, reporting>>

\* BatchCollect letting the exception of a document end the batch
BatchCollectAborting ==
    /\ entry = "main"
    /\ args.existing_dir
    /\ pc \in {"done", "raised"}
    /\ IF pc = "done"
       THEN /\ results' = Append(results, result)
            /\ pc' = "batch"
            /\ UNCHANGED <<error_log, exit_code>>
       ELSE /\ error_log' = Append(error_log, existing_doc_path)
            /\ exit_code' = <<1>>
            /\ pc' = "exited"
            /\ UNCHANGED results
    /\ UNCHANGED <<inputs, engine, raised, result, existing_doc_path, args, config_file,
                   config, sources, best_result, reports, parsing, reporting>>

\* compare_multiple: the end of the try statement: the result is appended, or the
\* exception is logged and the loop goes on
BatchCollect ==
    /\ entry = "main"
    /\ args.existing_dir
    /\ pc \in {"done", "raised"}
    /\ IF pc = "done"
       THEN /\ results' = Append(results, result)
            /\ UNCHANGED error_log
       ELSE /\ error_log' = Append(error_log, existing_doc_path)
            /\ UNCHANGED results
    /\ pc' = "batch"
    /\ UNCHANGED <<inputs, engine, raised, result, existing_doc_path, args, config_file,
                   config, sources, best_result, reports, exit_code, parsing, reporting>>

\* BatchSelect without the test of the empty list
BatchSelectUnchecked ==
    /\ entry = "main"
    /\ pc = "batch_returned"
    /\ best_result' = get_best_match(results)
    /\ pc' = "reports"
    /\ UNCHANGED <<inputs, engine, raised, result, existing_doc_path, args, config_file,
                   config, sources, results, error_log, reports, exit_code, parsing, reporting>>

\* main after compare_multiple: sys.exit(1) on an empty list, else get_best_match
BatchSelect ==
    /\ entry = "main"
    /\ pc = "batch_returned"
    /\ IF results = <<>>
       THEN /\ exit_code' = <<1>>
            /\ pc' = "exited"
            /\ UNCHANGED best_result
       ELSE /\ best_result' = get_best_match(results)
            /\ pc' = "reports"
            /\ UNCHANGED exit_code
    /\ UNCHANGED <<inputs, engine, raised, result, existing_doc_path, args, config_file,
                   config, sources, results, error_log, reports, parsing, reporting>>

\* main, batch mode: the loop that writes one report per result, then the best
\* match is printed; an exception of the report generator ends main with status 1
BatchReport ==
    /\ entry = "main"
    /\ pc = "reports"
    /\ IF Len(reports) < Len(results)
       THEN \E written \in BOOLEAN :
               IF written
               THEN /\ reports' = Append(reports,
                                         results[Len(reports) + 1].existing_document)
                    /\ UNCHANGED <<pc, exit_code>>
               ELSE /\ exit_code' = <<1>>
                    /\ pc' = "exited"
                    /\ UNCHANGED reports
       ELSE /\ exit_code' = <<0>>
            /\ pc' = "exited"
            /\ UNCHANGED reports
    /\ UNCHANGED <<inputs, engine, raised, result, existing_doc_path, args, config_file,
                   config, sources, results, error_log, best_result, parsing, reporting>>

\* main, single mode, after compare_documents: the report is written, or the
\* exception of compare_documents or of the report generator ends main with
\* status 1
SingleReport ==
    /\ entry = "main"
    /\ ~args.existing_dir
    /\ pc \in {"done", "raised"}
    /\ IF pc = "done"
       THEN \E written \in BOOLEAN :
               IF written
               THEN reports' = <<result.existing_document>> /\ exit_code' = <<0>>
               ELSE reports' = reports /\ exit_code' = <<1>>
       ELSE reports' = reports /\ exit_code' = <<1>>
    /\ pc' = "exited"
    /\ UNCHANGED <<inputs, engine, raised, result, existing_doc_path, args, config_file,
                   config, sources, results, error_log, best_result, parsing, reporting>>

MainNext ==
    \/ MainStart
    \/ ParseDocuments
    \/ CreateEmbeddings
    \/ CompareOne
    \/ ReturnMatches
    \/ BuildResult
    \/ BatchNext
    \/ BatchCollect
    \/ BatchSelect
    \/ BatchReport
    \/ SingleReport

MainSpec == MainInit /\ [][MainNext]_vars

\* ---------------------------------------------------------------------------
\* ReportSpec: ReportGenerator.generate (report_generator.py)
\* ---------------------------------------------------------------------------
OutputFormats == {"markdown", "html", "both"}

\* paths are sequences of strings; the ones a caller gives
OutputPaths == {NoPath, <<"report.html">>, <<"report.md">>}

\* config['output']['directory'], or its default
OutputDirs == {"outputs/comparison_reports", "out"}

\* f"{self.output_dir}/comparison_{timestamp}{extension}" with the timestamp of
\* the second the clock is in
DefaultPath(extension) == <<output_dir, "/comparison_">> \o Str(clock) \o <<extension>>

\* open(path, 'w') and f.write(content): the file is created or replaced
Write(path, kind) ==
    {f \in files : f.path # path} \cup {[path |-> path, content |-> kind]}

ReportInit ==
    /\ entry = "generate"
    /\ pc = "generate"
    /\ exact_threshold = 100
    /\ similar_threshold = 90
    /\ new_features = <<>>
    /\ existing_features = <<>>
    /\ EngineIdle
    /\ raised = "none"
    /\ result = NoResult
    /\ DriverIdle
    /\ ParsingIdle
    /\ output_format \in OutputFormats
    /\ output_path \in OutputPaths
    /\ output_dir \in OutputDirs
    /\ clock = 0
    /\ files = {}
    /\ generated_files = NoFiles

\* time passes between the steps of generate
Tick ==
    /\ entry = "generate"
    /\ pc \in {"generate", "markdown_done"}
    /\ clock < MaxClock
    /\ clock' = clock + 1
    /\ UNCHANGED <<pc, inputs, engine, raised, result, driver, parsing, output_format,
                   output_path, output_dir, files, generated_files>>

\* generate: the markdown part, generate_markdown included; open() may raise
GenerateMarkdown ==
    /\ entry = "generate"
    /\ pc = "generate"
    /\ IF output_format \in {"markdown", "both"}
       THEN LET md_path == IF output_path = NoPath THEN DefaultPath(".md")
                           ELSE output_path
            IN  \E writable \in BOOLEAN :
                   IF writable
                   THEN /\ files' = Write(md_path, "markdown")
                        /\ generated_files' = [generated_files EXCEPT !.markdown = md_path]
                        /\ pc' = "markdown_done"
                        /\ raised' = raised
                   ELSE /\ pc' = "raised"
                        /\ raised' = "OSError"
                        /\ UNCHANGED <<files, generated_files>>
       ELSE /\ pc' = "markdown_done"
            /\ UNCHANGED <<files, generated_files, raised>>
    /\ UNCHANGED <<inputs, engine, result, driver, parsing, output_format, output_path,
                   output_dir, clock>>

\* generate: the HTML part, generate_html included, and the return
GenerateHtml ==
    /\ entry = "generate"
    /\ pc = "markdown_done"
    /\ IF output_format \in {"html", "both"}
       THEN LET html_path == IF output_path = NoPath THEN DefaultPath(".html")
                             ELSE output_path
            IN  \E writable \in BOOLEAN :
                   IF writable
                   THEN /\ files' = Write(html_path, "html")
                        /\ generated_files' = [generated_files EXCEPT !.html = html_path]
                        /\ pc' = "generated"
                        /\ raised' = raised
                   ELSE /\ pc' = "raised"
                        /\ raised' = "OSError"
                        /\ UNCHANGED <<files, generated_files>>
       ELSE /\ pc' = "generated"
            /\ UNCHANGED <<files, generated_files, raised>>
    /\ UNCHANGED <<inputs, engine, result, driver, parsing, output_format, output_path,
                   output_dir, clock>>

ReportNext ==
    \/ Tick
    \/ GenerateMarkdown
    \/ GenerateHtml

ReportSpec == ReportInit /\ [][ReportNext]_vars

\* ---------------------------------------------------------------------------
\* Vocabulary of the properties
\* ---------------------------------------------------------------------------
Range(seq) == {seq[k] : k \in 1..Len(seq)}

AllPairs == Range(exact_matches) \cup Range(similar_matches)

\* compare_features is running or has ended
InCompareFeatures ==
    \/ pc \in {"loop", "returned", "done"}
    \/ pc = "raised" /\ raised = "AttributeError"

\* compare_features has ended, by returning or by raising
CompareFeaturesEnded ==
    \/ pc \in {"returned", "done"}
    \/ pc = "raised" /\ raised = "AttributeError"

\* the inner scan has run for some new feature, and Scanned is the last such
HasScanned ==
    \/ pc \in {"loop", "returned", "done"} /\ i > 1
    \/ pc = "raised" /\ raised = "AttributeError"

Scanned == IF pc = "raised" THEN i ELSE i - 1

Sim(k, j) == calculate_similarity(new_embeddings[k], existing_embeddings[j])

\* the existing items claimed by new features before k
ClaimedBefore(k) == {p.existing_feature : p \in {q \in AllPairs : q.new_feature < k}}

Unclaimed(k) == (1..Len(existing_features)) \ ClaimedBefore(k)

\* how many times new feature k occurs in the three output lists
Placements(k) ==
    Cardinality({n \in 1..Len(exact_matches) : exact_matches[n].new_feature = k})
    + Cardinality({n \in 1..Len(similar_matches) : similar_matches[n].new_feature = k})
    + Cardinality({n \in 1..Len(delta_features) : delta_features[n] = k})

\* ---------------------------------------------------------------------------
\* C1: whenever compare_features ends, it has returned with every new item in
\* exactly one of exact_matches, similar_matches and delta_features, so the three
\* lengths sum to the number of new items, for every threshold pair with
\* similar_threshold <= exact_threshold.
\* ---------------------------------------------------------------------------
C1_EveryNewItemPlaced ==
    CompareFeaturesEnded =>
        /\ raised = "none"
        /\ Len(exact_matches) + Len(similar_matches) + Len(delta_features)
               = Len(new_features)
        /\ \A k \in 1..Len(new_features) : Placements(k) = 1

\* ---------------------------------------------------------------------------
\* C2: no existing item is the existing_feature of two MatchPairs across
\* exact_matches and similar_matches: the claimed set is exactly the existing
\* items of the pairs, one pair each, and the item a scan selects was not
\* claimed by an earlier new item.
\* ---------------------------------------------------------------------------
C2_NoDoubleClaim ==
    InCompareFeatures =>
        /\ \A p \in AllPairs, q \in AllPairs :
               p.existing_feature = q.existing_feature => p = q
        /\ \A m \in 1..Len(exact_matches), n \in 1..Len(similar_matches) :
               exact_matches[m].existing_feature # similar_matches[n].existing_feature
        /\ \A m \in 1..Len(exact_matches), n \in 1..Len(exact_matches) :
               exact_matches[m].existing_feature = exact_matches[n].existing_feature
                   => m = n
        /\ \A m \in 1..Len(similar_matches), n \in 1..Len(similar_matches) :
               similar_matches[m].existing_feature = similar_matches[n].existing_feature
                   => m = n
        /\ matched_existing_indices = {p.existing_feature : p \in AllPairs}
        /\ \A p \in AllPairs : p.existing_feature \notin ClaimedBefore(p.new_feature)

\* a later new feature was paired with another item although an item claimed
\* earlier is more similar to it
C2_Witness ==
    /\ pc = "done"
    /\ \E p \in AllPairs, q \in AllPairs :
        /\ p.new_feature < q.new_feature
        /\ q.existing_feature # -1
        /\ Sim(q.new_feature, p.existing_feature) > q.similarity_score

\* ---------------------------------------------------------------------------
\* C3 as stated: new items are processed in their order, and whenever some
\* existing item is still unclaimed the scan selects the unclaimed item of
\* maximum similarity, the lowest position among equals.
\* ---------------------------------------------------------------------------
ProcessedInOrder ==
    /\ \A k \in 1..Len(new_features) :
           Placements(k) = IF k <= Scanned THEN 1 ELSE 0
    /\ \A m \in 1..Len(exact_matches), n \in 1..Len(exact_matches) :
           m < n => exact_matches[m].new_feature < exact_matches[n].new_feature
    /\ \A m \in 1..Len(similar_matches), n \in 1..Len(similar_matches) :
           m < n => similar_matches[m].new_feature < similar_matches[n].new_feature
    /\ \A m \in 1..Len(delta_features), n \in 1..Len(delta_features) :
           m < n => delta_features[m] < delta_features[n]

\* best is the first item of maximum similarity among the candidates
FirstMaximum(k, candidates) ==
    /\ best.best_index \in candidates
    /\ best.best_score = Sim(k, best.best_index)
    /\ \A j \in candidates :
        /\ Sim(k, j) <= best.best_score
        /\ Sim(k, j) = best.best_score => best.best_index <= j

C3_SelectsMaximumUnclaimed ==
    HasScanned =>
        /\ ProcessedInOrder
        /\ Unclaimed(Scanned) # {} => FirstMaximum(Scanned, Unclaimed(Scanned))

\* C3 amended: the scan selects the first unclaimed item of maximum similarity
\* provided that maximum is greater than 0; when no unclaimed item has a
\* similarity above 0 it selects none (best_index -1, best_score 0).
C3_SelectsMaximumPositive ==
    HasScanned =>
        LET positive == {j \in Unclaimed(Scanned) : Sim(Scanned, j) > 0}
        IN  /\ ProcessedInOrder
            /\ IF positive # {}
               THEN FirstMaximum(Scanned, positive)
               ELSE best = NoBest

\* two unclaimed items tie at the maximum and the scan took the first
C3_Witness ==
    /\ HasScanned
    /\ best.best_index # -1
    /\ \E j \in Unclaimed(Scanned) :
        /\ j > best.best_index
        /\ Sim(Scanned, j) = best.best_score

\* ---------------------------------------------------------------------------
\* C4: the new item just scanned, with best score s, is an exact MatchPair with its
\* candidate claimed when s >= exact_threshold, a similar MatchPair with its
\* candidate claimed when similar_threshold <= s < exact_threshold, and a delta
\* item otherwise or when no unclaimed existing item remained; every exact pair
\* has a score >= exact_threshold and every similar pair a score in
\* [similar_threshold, exact_threshold).
\* ---------------------------------------------------------------------------
PairedWithCandidate(list, k, match_type) ==
    /\ best.best_index \in 1..Len(existing_features)
    /\ best.best_index \in matched_existing_indices
    /\ \E p \in Range(list) :
        /\ p.new_feature = k
        /\ p.existing_feature = best.best_index
        /\ p.similarity_score = best.best_score
        /\ p.match_type = match_type

C4_ClassifiedByThresholds ==
    HasScanned =>
        LET k == Scanned
            s == best.best_score
        IN  /\ \/ s >= exact_threshold /\ PairedWithCandidate(exact_matches, k, "exact")
               \/ /\ similar_threshold <= s
                  /\ s < exact_threshold
                  /\ PairedWithCandidate(similar_matches, k, "similar")
               \/ /\ (s < exact_threshold /\ s < similar_threshold) \/ Unclaimed(k) = {}
                  /\ k \in Range(delta_features)
            /\ \A p \in Range(exact_matches) : p.similarity_score >= exact_threshold
            /\ \A p \in Range(similar_matches) :
                   /\ similar_threshold <= p.similarity_score
                   /\ p.similarity_score < exact_threshold

\* ---------------------------------------------------------------------------
\* C5: when embed_documents raised for the new items, the existing items or
\* both, compare_features does not raise: the affected items have zero vectors,
\* every similarity involving them is 0, and the call returns, for every
\* threshold pair with 0 <= similar_threshold <= exact_threshold <= 1.
\* ---------------------------------------------------------------------------
C5_EmbeddingFailureTolerated ==
    (InCompareFeatures /\ embed_failed # {}) =>
        /\ raised = "none"
        /\ "new" \in embed_failed =>
               \A k \in 1..Len(new_features) : new_embeddings[k] = ZeroVector
        /\ "existing" \in embed_failed =>
               \A j \in 1..Len(existing_features) : existing_embeddings[j] = ZeroVector
        /\ \A k \in 1..Len(new_features), j \in 1..Len(existing_features) : Sim(k, j) = 0
        /\ CompareFeaturesEnded => pc \in {"returned", "done"}

\* ---------------------------------------------------------------------------
\* C6: a new item whose language-model call failed is recorded in
\* similar_matches with the fallback text as gap_analysis and its existing item
\* claimed; the loop went on past it, and the comparison is not aborted: once
\* it has ended it has returned, with every new item placed.
\* ---------------------------------------------------------------------------
C6_GapFailureTolerated ==
    \A k \in llm_failures :
        /\ i > k
        /\ \E p \in Range(similar_matches) :
            /\ p.new_feature = k
            /\ p.gap_analysis = Fallback
            /\ p.existing_feature \in 1..Len(existing_features)
            /\ p.existing_feature \in matched_existing_indices
        /\ \A p \in Range(exact_matches) : p.new_feature # k
        /\ k \notin Range(delta_features)
        /\ CompareFeaturesEnded =>
               /\ pc \in {"returned", "done"}
               /\ \A n \in 1..Len(new_features) : Placements(n) = 1

\* ---------------------------------------------------------------------------
\* C7: after calculate_statistics, reusability_score equals
\* exact_match_percentage + similar_match_percentage exactly (as doubles), on a
\* result whose new_features_count is the number of classified items.
\* ---------------------------------------------------------------------------
StatisticsComputed == pc \in {"stats_once", "stats_twice"}

ConsistentCounts ==
    result.new_features_count
        = Len(result.exact_matches) + Len(result.similar_features)
              + Len(result.delta_features)

C7_ReusabilityIsSum ==
    (StatisticsComputed /\ ConsistentCounts) =>
        result.statistics.reusability_score
            = FloatAdd(result.statistics.exact_match_percentage,
                       result.statistics.similar_match_percentage)

\* ---------------------------------------------------------------------------
\* C8: a call of calculate_statistics changes no field of the result other than
\* statistics, and a second call in a row leaves the statistics as the first
\* call set them.
\* ---------------------------------------------------------------------------
StatisticsOnlyWritten ==
    /\ result'.existing_document = result.existing_document
    /\ result'.new_features_count = result.new_features_count
    /\ result'.existing_features_count = result.existing_features_count
    /\ result'.exact_matches = result.exact_matches
    /\ result'.similar_features = result.similar_features
    /\ result'.delta_features = result.delta_features

SecondCallSameStatistics ==
    (pc = "stats_once") => (result'.statistics = result.statistics)

C8_IdempotentAndPure ==
    [][(pc \in {"stats", "stats_once"})
           => (StatisticsOnlyWritten /\ SecondCallSameStatistics)]_vars

\* the second call has run on a result with matches and a count that differs
\* from the number of classified items
C8_Witness ==
    /\ pc = "stats_twice"
    /\ Len(result.exact_matches) > 0
    /\ result.new_features_count > 0
    /\ result.new_features_count
           # Len(result.exact_matches) + Len(result.similar_features)
                 + Len(result.delta_features)

\* ---------------------------------------------------------------------------
\* C9: with new_count > 0 the four percentages are |exact|/new_count*100,
\* |similar|/new_count*100, |delta|/new_count*100 and
\* (|exact|+|similar|)/new_count*100, each to within 2^-16 of the exact quotient
\* (the double's rounding); with new_count = 0 all four are 0.
\* ---------------------------------------------------------------------------
WithinRounding(x, count, total) ==
    LET f == FloatToFixed(x, 16)
    IN  /\ total * f <= 100 * count * 65536
        /\ total * f >= (100 * count * 65536) - total

C9_PercentagesAsDefined ==
    StatisticsComputed =>
        LET st == result.statistics
            n  == result.new_features_count
            e  == Len(result.exact_matches)
            s  == Len(result.similar_features)
            d  == Len(result.delta_features)
        IN  IF n > 0
            THEN /\ WithinRounding(st.exact_match_percentage, e, n)
                 /\ WithinRounding(st.similar_match_percentage, s, n)
                 /\ WithinRounding(st.delta_percentage, d, n)
                 /\ WithinRounding(st.reusability_score, e + s, n)
            ELSE /\ st.exact_match_percentage = FZero
                 /\ st.similar_match_percentage = FZero
                 /\ st.delta_percentage = FZero
                 /\ st.reusability_score = FZero

\* statistics computed where the quotient is not a double (1/3) ...
C9_Witness ==
    /\ pc = "stats_once"
    /\ result.new_features_count = 3
    /\ Len(result.exact_matches) = 1
    /\ Len(result.similar_features) = 2
    /\ result.statistics.exact_match_percentage # FZero

\* ---------------------------------------------------------------------------
\* C10 as stated: a comparison of one or more new items against an empty
\* existing sequence (the documents readable) ends with every new item delta,
\* no exact and no similar match, and reusability_score 0.
\* ---------------------------------------------------------------------------
AllDelta ==
    /\ delta_features = [k \in 1..Len(new_features) |-> k]
    /\ exact_matches = <<>>
    /\ similar_matches = <<>>

C14_InputErrorsRejected ==
    (entry = "compare_documents") =>
        /\ (pc # "parse" /\ (new_features = <<>> \/ existing_features = <<>>)) =>
               (pc = "raised" /\ raised \in {"OSError", "ValueError"})
        /\ (raised \in {"OSError", "ValueError"}) =>
               (pc = "raised" /\ EngineIdle /\ result = NoResult)
        /\ (result # NoResult) =>
               /\ new_features # <<>>
               /\ existing_features # <<>>
               /\ result.new_features_count = Len(new_features)
               /\ result.existing_features_count = Len(existing_features)

\* the new document parsed to nothing and compare_documents raised ValueError
C14_Witness ==
    /\ entry = "compare_documents"
    /\ new_features = <<>>
    /\ existing_features # <<>>
    /\ pc = "raised"
    /\ raised = "ValueError"

\* ---------------------------------------------------------------------------
\* C20: the similarity of two embeddings of which one or both have norm 0 is 0,
\* and a scan over such embeddings leaves best_score 0 with no index selected.
\* ---------------------------------------------------------------------------
C20_ZeroNormSimilarityZero ==
    (InCompareFeatures /\ pc # "embed") =>
        /\ \A k \in 1..Len(new_embeddings), j \in 1..Len(existing_embeddings) :
               (Norm(new_embeddings[k]) = 0 \/ Norm(existing_embeddings[j]) = 0) =>
                   calculate_similarity(new_embeddings[k], existing_embeddings[j]) = 0
        /\ (embed_failed # {} /\ HasScanned) => best = NoBest

\* both embedding calls failed and a new feature was scanned against the zero
\* vectors of the existing ones
C20_Witness ==
    /\ embed_failed = {"new", "existing"}
    /\ Len(new_features) >= 1
    /\ Len(existing_features) >= 1
    /\ HasScanned

\* ---------------------------------------------------------------------------
\* C15: extract_features invokes the strategies in the order numbered, header,
\* bullet; the header strategy exactly when the numbered one yielded nothing, the
\* bullet strategy exactly when both yielded nothing; it returns the output of
\* the first strategy that yields a feature.
\* ---------------------------------------------------------------------------
C15_StrategiesInPriorityOrder ==
    (entry = "extract_features") =>
        LET numbered == extract_numbered_features(content)
            header == extract_header_features(content)
            bullet == extract_bullet_features(content)
        IN  /\ strategies_tried
                   = SubSeq(<<"numbered", "header", "bullet">>, 1, Len(strategies_tried))
            /\ (Len(strategies_tried) >= 2) => (numbered = <<>>)
            /\ (Len(strategies_tried) = 3) => (header = <<>>)
            /\ (pc = "extracted") =>
                   /\ Len(strategies_tried) >= 1
                   /\ (numbered = <<>>) => (Len(strategies_tried) >= 2)
                   /\ (numbered = <<>> /\ header = <<>>) => (Len(strategies_tried) = 3)
                   /\ features = IF numbered # <<>> THEN numbered
                                 ELSE IF header # <<>> THEN header
                                 ELSE bullet

\* a text with a numbered line and a heading line was extracted by the numbered
\* strategy alone
C15_Witness ==
    /\ pc = "extracted"
    /\ strategies_tried = <<"numbered">>
    /\ \E k \in 1..Len(content) : MatchHeader(strip(content[k])) # NoMatch
    /\ features # <<>>

\* ---------------------------------------------------------------------------
\* C16: the features extract_features returns have pairwise different ids.
\* ---------------------------------------------------------------------------
C16_IdsUnique ==
    (pc = "extracted") =>
        \A a \in 1..Len(features), b \in 1..Len(features) :
            (a # b) => (features[a].id # features[b].id)

\* ---------------------------------------------------------------------------
\* C17: every feature extracted has a non-empty title and a non-empty
\* description; a feature with no accumulated body (its raw_text is just its
\* title) has its title as description, and any other has its body.
\* ---------------------------------------------------------------------------
C17_TitleAndDescriptionNonEmpty ==
    (entry = "extract_features") =>
        \A k \in 1..Len(features) :
            LET f == features[k]
            IN  /\ f.title # <<>>
                /\ f.description # <<>>
                /\ (clean_text(f.raw_text) = f.title) => (f.description = f.title)
                /\ (clean_text(f.raw_text) # f.title) =>
                       (clean_text(f.raw_text) = f.title \o <<" ">> \o f.description)

\* the numbered strategy returned a feature without body and one with a body
C17_Witness ==
    /\ pc = "extracted"
    /\ strategies_tried = <<"numbered">>
    /\ \E a \in 1..Len(features), b \in 1..Len(features) :
        /\ features[a].raw_text = features[a].title
        /\ features[a].description = features[a].title
        /\ features[b].description # features[b].title

\* ---------------------------------------------------------------------------
\* C18: title, description and raw_text of every feature extracted are
\* whitespace-normalized: no whitespace at either end, every whitespace character
\* a single space between two other characters.
\* ---------------------------------------------------------------------------
Normalized(text) ==
    /\ text # <<>> => (text[1] \notin Whitespace /\ text[Len(text)] \notin Whitespace)
    /\ \A k \in 1..Len(text) :
        (text[k] \in Whitespace) =>
            (text[k] = " " /\ k < Len(text) /\ text[k + 1] \notin Whitespace)

C18_TextNormalized ==
    (pc = "extracted") =>
        \A k \in 1..Len(features) :
            /\ Normalized(features[k].title)
            /\ Normalized(features[k].description)
            /\ Normalized(features[k].raw_text)

\* ---------------------------------------------------------------------------
\* C11: on a non-empty list get_best_match returns a result of greatest
\* reusability_score, the first of them in the list; when only one result has
\* the greatest score, it is the one returned for every ordering of the list.
\* main's best_result is what get_best_match returns on the results.
\* ---------------------------------------------------------------------------
Orderings(n) ==
    {f \in [1..n -> 1..n] : \A a \in 1..n, b \in 1..n : (a # b) => (f[a] # f[b])}

C11_BestMatchIsFirstMaximum ==
    (entry = "main" /\ results # <<>>) =>
        LET b == get_best_match(results)
            n == Len(results)
        IN  /\ b \in 1..n
            /\ \A m \in 1..n : ~FloatLess(ScoreKey(results[b]), ScoreKey(results[m]))
            /\ \A m \in 1..(b - 1) : FloatLess(ScoreKey(results[m]), ScoreKey(results[b]))
            /\ (\A m \in (1..n) \ {b} :
                    FloatLess(ScoreKey(results[m]), ScoreKey(results[b]))) =>
                   \A f \in Orderings(n) :
                       LET reordered == [k \in 1..n |-> results[f[k]]]
                       IN  reordered[get_best_match(reordered)] = results[b]
            /\ (best_result # 0) => (best_result = b)

\* of three results the second and the third share the greatest score, and the
\* second was selected
C11_Witness ==
    /\ entry = "main"
    /\ Len(results) = 3
    /\ best_result = 2
    /\ ScoreKey(results[3]) = ScoreKey(results[2])
    /\ FloatLess(ScoreKey(results[1]), ScoreKey(results[2]))

\* ---------------------------------------------------------------------------
\* C12: in compare_multiple every document of the directory taken so far either
\* gave a result, appended to the list, or raised and was logged, never both; the
\* results are in the order of the directory and are those compare_documents
\* built for their documents; a document that parses to nothing is among the
\* logged ones; and the loop ends only when every document has been taken.
\* ---------------------------------------------------------------------------
InComparison == pc \in {"parse", "embed", "loop", "returned", "done", "raised"}

Processed == IF InComparison THEN existing_doc_path - 1 ELSE existing_doc_path

Increasing(seq) == \A a \in 1..Len(seq), b \in 1..Len(seq) : (a < b) => (seq[a] < seq[b])

C12_FailedSourcesSkipped ==
    (entry = "main" /\ args.existing_dir) =>
        LET succeeded == [k \in 1..Len(results) |-> results[k].existing_document]
        IN  /\ Increasing(succeeded)
            /\ Increasing(error_log)
            /\ Range(succeeded) \cup Range(error_log) = 1..Processed
            /\ Range(succeeded) \cap Range(error_log) = {}
            /\ \A k \in 1..Len(results) :
                   /\ results[k].statistics # EmptyDict
                   /\ results[k].new_features_count = Len(new_features)
                   /\ results[k].existing_features_count
                          = Len(sources[results[k].existing_document])
            /\ \A k \in 1..Processed : (sources[k] = <<>>) => (k \in Range(error_log))
            /\ (config # NoConfig /\ pc \in {"batch_returned", "reports", "exited"}) =>
                   (Processed = Len(sources))

\* of three documents with features the second raised, and the batch returned
\* the results of the first and the third
C12_Witness ==
    /\ entry = "main"
    /\ pc = "batch_returned"
    /\ Len(sources) = 3
    /\ sources[2] # <<>>
    /\ error_log = <<2>>
    /\ Len(results) = 2
    /\ results[1].existing_document = 1
    /\ results[2].existing_document = 3

\* ---------------------------------------------------------------------------
\* C13: a batch that produced no result ends main with status 1, with no best
\* match selected and no report written; a best match is only ever selected
\* from a non-empty list.
\* ---------------------------------------------------------------------------
C13_EmptyBatchIsError ==
    (entry = "main" /\ args.existing_dir) =>
        /\ (pc = "exited" /\ results = <<>>) => (exit_code = <<1>>)
        /\ (results = <<>>) => (best_result = 0 /\ reports = <<>> /\ exit_code # <<0>>)
        /\ (pc = "reports") => (results # <<>>)
        /\ (best_result # 0) => (best_result \in 1..Len(results))

\* every document of a directory of two or more failed and main exited with 1
C13_Witness ==
    /\ entry = "main"
    /\ args.existing_dir
    /\ pc = "exited"
    /\ Len(sources) >= 2
    /\ Len(error_log) = Len(sources)
    /\ results = <<>>
    /\ exit_code = <<1>>

\* ---------------------------------------------------------------------------
\* C19: when main is run with --threshold t, the engine that makes the
\* comparison has similar_threshold t.
\* ---------------------------------------------------------------------------
C19_ThresholdOverrideUsed ==
    (entry = "main" /\ config # NoConfig /\ args.threshold # NoThreshold) =>
        (similar_threshold = args.threshold)

\* ---------------------------------------------------------------------------
\* C21: calculate_similarity is symmetric: for every two vectors held by a
\* comparison, whichever side they are on, similarity(a, b) = similarity(b, a).
\* ---------------------------------------------------------------------------
Embeddings == Range(new_embeddings) \cup Range(existing_embeddings)

C21_SimilaritySymmetric ==
    InCompareFeatures =>
        \A u \in Embeddings, v \in Embeddings :
            calculate_similarity(u, v) = calculate_similarity(v, u)

\* a scan has compared two different vectors of different norms, neither zero
C21_Witness ==
    /\ HasScanned
    /\ \E k \in 1..Len(new_features), j \in 1..Len(existing_features) :
        /\ new_embeddings[k] # existing_embeddings[j]
        /\ Norm(new_embeddings[k]) # Norm(existing_embeddings[j])
        /\ Norm(new_embeddings[k]) # 0
        /\ Norm(existing_embeddings[j]) # 0
        /\ Sim(k, j) = 90

\* ---------------------------------------------------------------------------
\* C22: _analyze_gap is called once for each new item classified similar, in
\* the order of similar_matches, and for no item classified exact or delta;
\* every similar pair carries a gap analysis and every exact pair carries None.
\* ---------------------------------------------------------------------------
C22_GapAnalysisOnlyForSimilar ==
    InCompareFeatures =>
        /\ gap_calls = [n \in 1..Len(similar_matches) |-> similar_matches[n].new_feature]
        /\ \A m \in 1..Len(gap_calls), n \in 1..Len(gap_calls) :
               (m # n) => (gap_calls[m] # gap_calls[n])
        /\ \A p \in Range(exact_matches) : p.new_feature \notin Range(gap_calls)
        /\ \A k \in Range(delta_features) : k \notin Range(gap_calls)
        /\ \A p \in Range(similar_matches) :
               p.match_type = "similar" /\ p.gap_analysis \in {"analysis", Fallback}
        /\ \A p \in Range(exact_matches) :
               p.match_type = "exact" /\ p.gap_analysis = "None"

\* a run returned an exact pair, a similar pair whose analysis the language
\* model produced, and nothing else
C22_Witness ==
    /\ pc = "done"
    /\ Len(exact_matches) = 1
    /\ Len(similar_matches) = 1
    /\ similar_matches[1].gap_analysis = "analysis"
    /\ Len(gap_calls) = 1

\* ---------------------------------------------------------------------------
\* C23: the step that classifies a new item as delta changes neither the set
\* of claimed existing items nor the pairs, and the candidate it had found, if
\* any, is still unclaimed after the step.
\* ---------------------------------------------------------------------------
DeltaStep == pc = "loop" /\ pc' = "loop" /\ Len(delta_features') = Len(delta_features) + 1

DeltaLeavesPool ==
    /\ matched_existing_indices' = matched_existing_indices
    /\ exact_matches' = exact_matches
    /\ similar_matches' = similar_matches
    /\ best'.best_index \notin matched_existing_indices'

C23_DeltaLeavesPoolUntouched == [][DeltaStep => DeltaLeavesPool]_vars

\* the first new item was classified delta although the only existing item was
\* its candidate, and the second new item was then matched to that existing item
C23_Witness ==
    /\ pc = "done"
    /\ Len(existing_features) = 1
    /\ delta_features = <<1>>
    /\ Sim(1, 1) > 0
    /\ \E p \in AllPairs : p.new_feature = 2 /\ p.existing_feature = 1

\* ---------------------------------------------------------------------------
\* C27: while compare_features runs and when it ends, the number of pairs
\* produced equals the number of claimed existing items; the lists it returns
\* hold at most min(number of new items, number of existing items) pairs.
\* ---------------------------------------------------------------------------
Min(a, b) == IF a <= b THEN a ELSE b

PairCount == Len(exact_matches) + Len(similar_matches)

C27_PairsEqualClaimed ==
    /\ InCompareFeatures => (PairCount = Cardinality(matched_existing_indices))
    /\ (pc \in {"loop", "returned", "done"}) =>
           /\ matched_existing_indices \subseteq 1..Len(existing_features)
           /\ matched_existing_indices = {p.existing_feature : p \in AllPairs}
    /\ (pc \in {"returned", "done"}) =>
           (PairCount <= Min(Len(new_features), Len(existing_features)))
    /\ (pc = "done") =>
           (Len(result.exact_matches) + Len(result.similar_features)
                <= Min(result.new_features_count, result.existing_features_count))

\* two new items competed for one existing item and the result holds one pair
C27_Witness ==
    /\ pc = "done"
    /\ Len(new_features) = 2
    /\ Len(existing_features) = 1
    /\ PairCount = 1
    /\ matched_existing_indices = {1}

\* ---------------------------------------------------------------------------
\* C28: in each of exact_matches, similar_matches and delta_features the new
\* items stand in their input order.
\* ---------------------------------------------------------------------------
NewItemsOf(pairs) == [n \in 1..Len(pairs) |-> pairs[n].new_feature]

C28_OutputsInInputOrder ==
    InCompareFeatures =>
        /\ Increasing(NewItemsOf(exact_matches))
        /\ Increasing(NewItemsOf(similar_matches))
        /\ Increasing(delta_features)

\* a run returned a list holding both new items
C28_Witness ==
    /\ pc = "done"
    /\ \/ NewItemsOf(exact_matches) = <<1, 2>>
       \/ NewItemsOf(similar_matches) = <<1, 2>>
       \/ delta_features = <<1, 2>>

\* ---------------------------------------------------------------------------
\* C24: the numbered strategy yields one feature per numbered line, and the
\* description of each is the normalized space-join, in source order, of the
\* stripped lines after its numbered line and before the next numbered line or
\* the end that are non-empty and do not start with '#', or its title when
\* there is no such line; no other line reaches a description.
\* ---------------------------------------------------------------------------
\* the positions of the lines of kind Match (a line-matching operator)
StartsAt(lines, Match(_)) == {k \in 1..Len(lines) : Match(strip(lines[k])) # NoMatch}

\* the n-th smallest position of a set
NthOf(positions, n) ==
    CHOOSE k \in positions : Cardinality({m \in positions : m < k}) = n - 1

\* the last line of the item that starts at position k
EndOf(positions, k, last) ==
    IF \E m \in positions : m > k
    THEN (CHOOSE m \in positions : m > k /\ \A n \in positions : (n > k) => (m <= n)) - 1
    ELSE last

\* the stripped lines m..last that are non-empty and do not start with '#'
RECURSIVE BodyLines(_, _, _)
BodyLines(lines, m, last) ==
    IF m > last THEN <<>>
    ELSE LET line == strip(lines[m])
         IN  IF line # <<>> /\ line[1] # "#"
             THEN <<line>> \o BodyLines(lines, m + 1, last)
             ELSE BodyLines(lines, m + 1, last)

NumberedOutput == strategies_tried = <<"numbered">>

\* the body of the n-th numbered item of the content
NumberedBody(n) ==
    LET positions == StartsAt(content, MatchNumbered)
        k == NthOf(positions, n)
    IN  BodyLines(content, k + 1, EndOf(positions, k, Len(content)))

OneFeaturePerNumberedLine ==
    /\ Len(features) = Cardinality(StartsAt(content, MatchNumbered))
    /\ \A n \in 1..Len(features) :
           features[n].title
               = clean_text(MatchNumbered(
                     strip(content[NthOf(StartsAt(content, MatchNumbered), n)])).title)

\* the claim as stated, with no provision for an item without body lines
C24_DescriptionIsJoinedBody ==
    NumberedOutput =>
        /\ OneFeaturePerNumberedLine
        /\ \A n \in 1..Len(features) :
               features[n].description = clean_text(join(NumberedBody(n)))

C24_DescriptionIsJoinedBodyOrTitle ==
    NumberedOutput =>
        /\ OneFeaturePerNumberedLine
        /\ \A n \in 1..Len(features) :
               features[n].description
                   = IF NumberedBody(n) = <<>> THEN features[n].title
                     ELSE clean_text(join(NumberedBody(n)))

\* a numbered line was followed by a heading line and a plain line, and the
\* description of its feature is the plain line alone
C24_Witness ==
    /\ pc = "extracted"
    /\ NumberedOutput
    /\ Len(content) = 3
    /\ MatchNumbered(strip(content[1])) # NoMatch
    /\ startswith(strip(content[2]), "#")
    /\ Len(features) = 1
    /\ features[1].description = strip(content[3])
    /\ features[1].description # features[1].title

\* ---------------------------------------------------------------------------
\* C25: the header strategy yields one feature per line of two or three '#'
\* characters followed by whitespace and text, in source order; the k-th has
\* id <customer>_k whatever number its heading text holds, and the normalized
\* heading text as title; lines of one or of four and more '#' characters start
\* no feature and reach no description.
\* ---------------------------------------------------------------------------
HeaderOutput == strategies_tried = <<"numbered", "header">>

\* the heading level of a stripped line: its leading '#' characters, when
\* whitespace follows them; 0 for any other line
HeadingLevel(line) ==
    LET h == RunLength(line, 1, {"#"})
    IN  IF h >= 1 /\ Len(line) > h /\ line[h + 1] \in Whitespace THEN h ELSE 0

HeadingText(line) == SubSeq(line, HeadingLevel(line) + 1, Len(line))

\* the positions of the level-2 and level-3 heading lines
HeadingsAt(lines) == {k \in 1..Len(lines) : HeadingLevel(strip(lines[k])) \in {2, 3}}

\* the body of the n-th level-2 or level-3 heading of the content
HeaderBody(n) ==
    LET positions == HeadingsAt(content)
        k == NthOf(positions, n)
    IN  BodyLines(content, k + 1, EndOf(positions, k, Len(content)))

C25_OneFeaturePerHeading ==
    HeaderOutput =>
        /\ Len(features) = Cardinality(HeadingsAt(content))
        /\ \A n \in 1..Len(features) :
               LET line == strip(content[NthOf(HeadingsAt(content), n)])
               IN  /\ features[n].id = FeatureId(Str(n))
                   /\ features[n].title = clean_text(HeadingText(line))
                   /\ features[n].description
                          = IF HeaderBody(n) = <<>> THEN features[n].title
                            ELSE clean_text(join(HeaderBody(n)))

\* a heading whose text starts with the number 2 came first and got id
\* <customer>_1; a line of one or of four '#' characters followed it and a
\* second level-2 or level-3 heading got id <customer>_2
C25_Witness ==
    /\ pc = "extracted"
    /\ HeaderOutput
    /\ Len(content) = 3
    /\ HeadingText(strip(content[1])) = <<" ", "2", ".", " ", "x">>
    /\ HeadingLevel(strip(content[2])) \in {1, 4}
    /\ Len(features) = 2
    /\ features[1].id = <<Customer, "_", "1">>
    /\ features[2].id = <<Customer, "_", "2">>

\* ---------------------------------------------------------------------------
\* C26: in batch mode the result appended for a document is the result of a
\* compare_documents call on that document alone: the one such call yields under
\* the same answers of the embedding provider and of the language model, whatever
\* documents were compared before it.
\* ---------------------------------------------------------------------------
NoMatches == [exact |-> <<>>, similar |-> <<>>, delta |-> <<>>, matched |-> {},
              raised |-> FALSE]

\* compare_features as a function: the outer loop from new item k on, where
\* llm_ok[k] tells whether the language model answers for item k; .raised tells
\* that the call raised instead of returning
RECURSIVE CompareFrom(_, _, _, _, _)
CompareFrom(new_embs, existing_embs, llm_ok, k, so_far) ==
    IF k > Len(new_embs) THEN so_far
    ELSE LET b == ScanExisting(new_embs[k], existing_embs, so_far.matched, 1, NoBest)
             kind == Categorize(b.best_score, exact_threshold, similar_threshold)
             after ==
                 CASE kind = "exact" ->
                         [so_far EXCEPT
                             !.exact = Append(@, MatchPair(k, b.best_index, b.best_score,
                                                           "exact", "None")),
                             !.matched = @ \cup {b.best_index},
                             !.raised = (b.best_index = -1)]
                   [] kind = "similar" ->
                         [so_far EXCEPT
                             !.similar = Append(@, MatchPair(k, b.best_index, b.best_score,
                                                             "similar",
                                                             analyze_gap(b.best_index,
                                                                         llm_ok[k]))),
                             !.matched = @ \cup {b.best_index},
                             !.raised = (b.best_index = -1)]
                   [] kind = "delta" ->
                         [so_far EXCEPT !.delta = Append(@, k)]
         IN  IF after.raised THEN after
             ELSE CompareFrom(new_embs, existing_embs, llm_ok, k + 1, after)

\* compare_documents on one existing document, for documents that can be read:
\* the result it returns, or NoResult when it raises
compare_documents(new, existing, path, new_ok, existing_ok, llm_ok) ==
    IF new = <<>> \/ existing = <<>> THEN NoResult
    ELSE LET matches == CompareFrom(create_embeddings(new, new_ok),
                                    create_embeddings(existing, existing_ok),
                                    llm_ok, 1, NoMatches)
         IN  IF matches.raised THEN NoResult
             ELSE calculate_statistics(
                      ComparisonResult(path, Len(new), Len(existing),
                                       matches.exact, matches.similar, matches.delta))

\* the results compare_documents can return on the document at `path` alone
StandaloneResults(path) ==
    {compare_documents(new_features, sources[path], path, new_ok, existing_ok, llm_ok) :
        new_ok \in BOOLEAN, existing_ok \in BOOLEAN,
        llm_ok \in [1..Len(new_features) -> BOOLEAN]} \ {NoResult}

C26_BatchResultsAreStandalone ==
    (entry = "main" /\ args.existing_dir) =>
        /\ (pc = "done") =>
               (result = compare_documents(new_features, sources[existing_doc_path],
                                           existing_doc_path,
                                           "new" \notin embed_failed,
                                           "existing" \notin embed_failed,
                                           [k \in 1..Len(new_features) |->
                                               k \notin llm_failures]))
        /\ \A k \in 1..Len(results) :
               results[k] \in StandaloneResults(results[k].existing_document)

\* the batch returned the results of two documents; the comparison with the
\* first had claimed an existing item, and the second result holds pairs too
C26_Witness ==
    /\ entry = "main"
    /\ pc = "batch_returned"
    /\ Len(results) >= 2
    /\ results[1].existing_document = 1
    /\ results[2].existing_document = 2
    /\ Len(results[1].exact_matches) + Len(results[1].similar_features) >= 1
    /\ Len(results[2].exact_matches) + Len(results[2].similar_features) >= 2

\* ---------------------------------------------------------------------------
\* C29: when generate returns for output_format 'both', the markdown report and
\* the HTML report are at two different paths and each file holds its own
\* report, with output_path given or omitted.
\* ---------------------------------------------------------------------------
C29_BothFormatsTwoPaths ==
    (entry = "generate" /\ pc = "generated" /\ output_format = "both") =>
        /\ generated_files.markdown # generated_files.html
        /\ [path |-> generated_files.markdown, content |-> "markdown"] \in files
        /\ [path |-> generated_files.html, content |-> "html"] \in files

====
